---- MODULE Spec2Model ----
(***************************************************************************)
(* Instance lifecycle and concurrency manager of g3n-fastapi-webcam-docker *)
(* (src/app/lib/gemma_manager.py): the registry GemmaManager.instances,    *)
(* the GemmaInstance objects, the ThreadPoolExecutor that runs load and    *)
(* teardown, and the caller-facing operations.                             *)
(*                                                                         *)
(* Callers are concurrent tasks.  A step of a task is one access to shared *)
(* state (the registry, a field of an instance, the instance lock, the     *)
(* executor); the code between two such accesses is local and belongs to   *)
(* the step.  The registry lock (GemmaManager._lock) is held for a single  *)
(* dictionary operation, which is one step.  Worker threads of the         *)
(* executor run GemmaInstance.initialize and GemmaInstance.shutdown in     *)
(* parallel with the callers.                                              *)
(*                                                                         *)
(* The operations are coroutines.  Callers here interleave at every shared *)
(* access: this is the behaviour of callers on several threads or event    *)
(* loops, which the manager's threading.Lock objects are written for, and  *)
(* it includes every execution of callers on one event loop, where a       *)
(* coroutine runs uninterrupted from one await to the next.                *)
(***************************************************************************)
EXTENDS Integers, Sequences, FiniteSets, TLC

\* ------------------------------------------------------------------ bounds
NumTasks == 5
NumIds == 1
MaxInst == 2
MaxCalls == 3
NumAllIds == 2
MaxLengthBound == 160
InputLenBound == 200
SideBound == 120
MajorBound == 12

\* ThreadPoolExecutor(max_workers=4)
max_workers == 4

\* max_length: int = Field(default=100, ge=1, le=8192)
max_length_le == 8192

Tasks == 1..NumTasks
Ids == 1..NumIds
Objs == 1..MaxInst
AllIds == 1..NumAllIds

VARIABLES
    instances,  \* GemmaManager.instances: identifier -> instance object (0: absent)
    inst,       \* the GemmaInstance objects, by allocation index
    nInst,      \* number of GemmaInstance objects constructed so far
    task,       \* the callers: position in the operation, arguments, result
    job,        \* the executor job each caller awaits (run_in_executor)
    queue,      \* the executor's work queue: callers whose job is not started
    calls,      \* number of operations called so far
    calc        \* a computation of one call, taken on its own: inputs and result

vars == <<instances, inst, nInst, task, job, queue, calls, calc>>

\* ------------------------------------------------------------- the objects

\* GemmaInstance.__init__: status "loading", no model, no processor, no error,
\* lock free, flags cleared.  id 0: the object is not constructed yet.
\* reg and loaded record history: reg is "never" until a caller inserts the
\* object in the registry, then "in", then "shutdown" or "evicted" once a pop
\* of shutdown_instance or of initialize_instance's failure handler removed
\* it; loaded is "no" until the load task ends, then "ok" or "exc".
NewInstance(id) ==
    [id |-> id, status |-> "loading", model |-> FALSE, processor |-> FALSE,
     error_message |-> "none", lock |-> 0, processing |-> FALSE,
     cancel |-> FALSE, reg |-> "never", loaded |-> "no"]

\* todo is the rest of the identifier list shutdown_all iterates over; enum,
\* errs and done record the identifiers it enumerated, those whose
\* shutdown_instance raised and those whose shutdown_instance returned.
IdleTask ==
    [pc |-> "idle", op |-> "none", id |-> 0, inst |-> 0, res |-> "none",
     creq |-> FALSE, late |-> FALSE,
     todo |-> <<>>, enum |-> {}, errs |-> {}, done |-> {}]

NoJob == [kind |-> "none", inst |-> 0, pc |-> "-"]

\* No computation is singled out.
NoCalc == [fn |-> "none"]

Init ==
    /\ instances = [id \in Ids |-> 0]
    /\ inst = [i \in Objs |-> NewInstance(0)]
    /\ nInst = 0
    /\ task = [t \in Tasks |-> IdleTask]
    /\ job = [t \in Tasks |-> NoJob]
    /\ queue = <<>>
    /\ calls = 0
    /\ calc = NoCalc

\* A caller may start an operation.  Callers are interchangeable: a new call
\* takes the first idle one.
CanCall(t) ==
    /\ task[t].pc = "idle"
    /\ \A u \in Tasks : u < t => task[u].pc # "idle"
    /\ calls < MaxCalls

StartCall(t, op, id) ==
    [IdleTask EXCEPT !.op = op, !.id = id]

\* The operation of t ends with result r.
Finish(t, r) == [task[t] EXCEPT !.pc = "idle", !.res = r]

\* ------------------------------------------------------------ the registry

\* `instance_id in self.instances`
IdRegistered(id) == instances[id] # 0

\* self.instances.pop(instance_id, None): the registry without id, and the
\* history mark `how` on the object that was removed, if any.
PopRegistry(id) == [instances EXCEPT ![id] = 0]

PopMark(id, how) ==
    IF instances[id] = 0 THEN inst
    ELSE [inst EXCEPT ![instances[id]].reg = how]

\* GemmaManager._lock, the registry lock.  Every `with self._lock` block but
\* that of list_instances (line 655-656) is a single dictionary operation and
\* one step here; list_instances holds the lock while it calls get_info() on
\* every registered instance, which is the position "list_info" of its
\* caller.
RegistryLockHolders == {t \in Tasks : task[t].pc = "list_info"}

RegistryLockFree == RegistryLockHolders = {}

\* ------------------------------------------------------------ the executor

Running(t) == job[t].kind # "none" /\ job[t].pc \notin {"queued", "done_ok", "done_exc"}

BusyWorkersUncounted == Cardinality({t \in Tasks : FALSE})

\* The worker threads that are executing a job.
BusyWorkers == Cardinality({t \in Tasks : Running(t)})

\* loop.run_in_executor(self.executor, fn): the job is queued.
Submit(t, kind, i) ==
    /\ job' = [job EXCEPT ![t] = [kind |-> kind, inst |-> i, pc |-> "queued"]]
    /\ queue' = Append(queue, t)

WorkerStartNever(t) == FALSE /\ UNCHANGED vars

\* A free worker thread takes the oldest queued job.
WorkerStart(t) ==
    /\ queue # <<>>
    /\ Head(queue) = t
    /\ BusyWorkers < max_workers
    /\ queue' = Tail(queue)
    /\ job' = [job EXCEPT ![t].pc =
                 IF job[t].kind = "load" THEN "load_check" ELSE "td_lock"]
    /\ UNCHANGED <<instances, inst, nInst, task, calls>>
    /\ UNCHANGED calc

\* ----------------------------------------------- GemmaManager.initialize_instance

InitializeCallResets(t, id) ==
    /\ CanCall(t)
    /\ calls' = calls + 1
    /\ IF IdRegistered(id)
       THEN /\ task' = [task EXCEPT ![t] =
                   [StartCall(t, "init", id) EXCEPT !.res = "AlreadyExists"]]
            /\ inst' = [inst EXCEPT ![instances[id]] =
                   [NewInstance(id) EXCEPT !.reg = "in"]]
            /\ UNCHANGED nInst
       ELSE /\ nInst < MaxInst
            /\ nInst' = nInst + 1
            /\ inst' = [inst EXCEPT ![nInst + 1] = NewInstance(id)]
            /\ task' = [task EXCEPT ![t] =
                   [StartCall(t, "init", id) EXCEPT !.pc = "init_insert",
                                                    !.inst = nInst + 1]]
    /\ UNCHANGED <<instances, job, queue>>
    /\ UNCHANGED calc

\* initialize_instance, line 329-332: the membership test, outside the
\* registry lock, and the construction of the instance.
InitializeCall(t, id) ==
    /\ CanCall(t)
    /\ calls' = calls + 1
    /\ IF IdRegistered(id)
       THEN /\ task' = [task EXCEPT ![t] =
                   [StartCall(t, "init", id) EXCEPT !.res = "AlreadyExists"]]
            /\ UNCHANGED <<inst, nInst>>
       ELSE /\ nInst < MaxInst
            /\ nInst' = nInst + 1
            /\ inst' = [inst EXCEPT ![nInst + 1] = NewInstance(id)]
            /\ task' = [task EXCEPT ![t] =
                   [StartCall(t, "init", id) EXCEPT !.pc = "init_insert",
                                                    !.inst = nInst + 1]]
    /\ UNCHANGED <<instances, job, queue>>
    /\ UNCHANGED calc

\* initialize_instance, line 334-340: the insert under the registry lock, and
\* the submission of the load to the executor.
InitializeInsert(t) ==
    /\ task[t].pc = "init_insert"
    /\ RegistryLockFree
    /\ instances' = [instances EXCEPT ![task[t].id] = task[t].inst]
    /\ inst' = [inst EXCEPT ![task[t].inst].reg = "in"]
    /\ Submit(t, "load", task[t].inst)
    /\ task' = [task EXCEPT ![t].pc = "init_await"]
    /\ UNCHANGED <<nInst, calls>>
    /\ UNCHANGED calc

LoadEndedNotAwaited(t) == TRUE

\* The await of line 340 ends when the load task has ended.
LoadEnded(t) == job[t].pc \in {"done_ok", "done_exc"}

\* initialize_instance, line 340-341: the load succeeded; return get_info().
InitializeReturn(t) ==
    /\ task[t].pc = "init_await"
    /\ LoadEnded(t)
    /\ job[t].pc # "done_exc"
    /\ task' = [task EXCEPT ![t] = Finish(t, "ok")]
    /\ job' = [job EXCEPT ![t] = NoJob]
    /\ UNCHANGED <<instances, inst, nInst, queue, calls>>
    /\ UNCHANGED calc

FailureRegistryKept(id) == instances

\* What the failure handler does to the registry (line 345-346).
FailureRegistry(id) == PopRegistry(id)

\* initialize_instance, line 343-347: the load raised; remove the identifier
\* from the registry and raise again.
InitializeFail(t) ==
    /\ task[t].pc = "init_await"
    /\ LoadEnded(t)
    /\ job[t].pc = "done_exc"
    /\ RegistryLockFree
    /\ instances' = FailureRegistry(task[t].id)
    /\ inst' = IF instances'[task[t].id] = 0
               THEN PopMark(task[t].id, "evicted") ELSE inst
    /\ task' = [task EXCEPT ![t] = Finish(t, "EngineFailure")]
    /\ job' = [job EXCEPT ![t] = NoJob]
    /\ UNCHANGED <<nInst, queue, calls>>
    /\ UNCHANGED calc

\* ------------------------------------------------- GemmaInstance.initialize

JobStep(t, pc) == job[t].kind # "none" /\ job[t].pc = pc

\* initialize, line 49-72: the local model directory and its files are there,
\* or not.
LoadCheck(t) ==
    /\ JobStep(t, "load_check")
    /\ \E present \in BOOLEAN :
         job' = [job EXCEPT ![t].pc = IF present THEN "load_proc" ELSE "pre_status"]
    /\ UNCHANGED <<instances, inst, nInst, task, queue, calls>>
    /\ UNCHANGED calc

\* initialize, line 54 / 68: self.status = "error"
LoadPreStatus(t) ==
    /\ JobStep(t, "pre_status")
    /\ inst' = [inst EXCEPT ![job[t].inst].status = "error"]
    /\ job' = [job EXCEPT ![t].pc = "pre_msg"]
    /\ UNCHANGED <<instances, nInst, task, queue, calls>>
    /\ UNCHANGED calc

\* initialize, line 55-56 / 69-70: self.error_message = error_msg; raise
LoadPreMsg(t) ==
    /\ JobStep(t, "pre_msg")
    /\ inst' = [inst EXCEPT ![job[t].inst].error_message = "load"]
    /\ job' = [job EXCEPT ![t].pc = "exc_status"]
    /\ UNCHANGED <<instances, nInst, task, queue, calls>>
    /\ UNCHANGED calc

\* initialize, line 74-120: the device is chosen and the processor loaded, or
\* AutoProcessor.from_pretrained raises.
LoadProcessor(t) ==
    /\ JobStep(t, "load_proc")
    /\ \/ /\ inst' = [inst EXCEPT ![job[t].inst].processor = TRUE]
          /\ job' = [job EXCEPT ![t].pc = "load_model"]
       \/ /\ job' = [job EXCEPT ![t].pc = "exc_status"]
          /\ UNCHANGED inst
    /\ UNCHANGED <<instances, nInst, task, queue, calls>>
    /\ UNCHANGED calc

\* initialize, line 125-162: from_pretrained assigns self.model, then
\* self.model.to(self.device); either may raise.
LoadModel(t) ==
    /\ JobStep(t, "load_model")
    /\ \/ /\ inst' = [inst EXCEPT ![job[t].inst].model = TRUE]
          /\ job' = [job EXCEPT ![t].pc = "load_run"]
       \/ /\ inst' = [inst EXCEPT ![job[t].inst].model = TRUE]
          /\ job' = [job EXCEPT ![t].pc = "exc_status"]
       \/ /\ job' = [job EXCEPT ![t].pc = "exc_status"]
          /\ UNCHANGED inst
    /\ UNCHANGED <<instances, nInst, task, queue, calls>>
    /\ UNCHANGED calc

\* initialize, line 164-168: self.status = "running"; the task ends.
LoadRun(t) ==
    /\ JobStep(t, "load_run")
    /\ inst' = [inst EXCEPT ![job[t].inst].status = "running",
                            ![job[t].inst].loaded = "ok"]
    /\ job' = [job EXCEPT ![t].pc = "done_ok"]
    /\ UNCHANGED <<instances, nInst, task, queue, calls>>
    /\ UNCHANGED calc

\* initialize, line 170-171: except Exception: self.status = "error"
LoadExcStatus(t) ==
    /\ JobStep(t, "exc_status")
    /\ inst' = [inst EXCEPT ![job[t].inst].status = "error"]
    /\ job' = [job EXCEPT ![t].pc = "exc_msg"]
    /\ UNCHANGED <<instances, nInst, task, queue, calls>>
    /\ UNCHANGED calc

\* initialize, line 172-174: self.error_message = str(e); raise
LoadExcMsg(t) ==
    /\ JobStep(t, "exc_msg")
    /\ inst' = [inst EXCEPT ![job[t].inst].error_message = "load",
                            ![job[t].inst].loaded = "exc"]
    /\ job' = [job EXCEPT ![t].pc = "done_exc"]
    /\ UNCHANGED <<instances, nInst, task, queue, calls>>
    /\ UNCHANGED calc

\* --------------------------------------------------- GemmaManager.get_instance

\* get_instance, line 633-638: the registered object, under the registry
\* lock; ValueError ("not found") when the identifier is absent.
get_instance(id) == instances[id]

\* ----------------------------------------------- GemmaManager.shutdown_instance

\* shutdown_instance, line 660: get_instance; NotFound when absent.
ShutdownCall(t, id) ==
    /\ CanCall(t)
    /\ RegistryLockFree
    /\ calls' = calls + 1
    /\ task' = [task EXCEPT ![t] =
          IF IdRegistered(id)
          THEN [StartCall(t, "shutdown", id) EXCEPT !.pc = "sd_isproc",
                                                    !.inst = get_instance(id)]
          ELSE [StartCall(t, "shutdown", id) EXCEPT !.res = "NotFound"]]
    /\ UNCHANGED <<instances, inst, nInst, job, queue>>
    /\ UNCHANGED calc

ShutdownIsProcessingSkipped(t) ==
    /\ task[t].pc = "sd_isproc"
    /\ task' = [task EXCEPT ![t].pc = "sd_submit"]
    /\ UNCHANGED <<instances, inst, nInst, job, queue, calls, calc>>

\* shutdown_instance, line 663: if instance.is_processing()
ShutdownIsProcessing(t) ==
    /\ task[t].pc = "sd_isproc"
    /\ task' = [task EXCEPT ![t].pc =
          IF inst[task[t].inst].processing THEN "sd_cancel" ELSE "sd_submit"]
    /\ UNCHANGED <<instances, inst, nInst, job, queue, calls>>
    /\ UNCHANGED calc

\* A call of u that a cancellation set now can still stop: an image analysis
\* on object i that has cleared the flag at its start (line 417 / 552) and has
\* not passed its last checkpoint (line 510 / 600).
BeforeEngine(u, i) ==
    /\ task[u].inst = i
    /\ task[u].op \in {"analyze", "analyze_pil"}
    /\ task[u].pc \in {"an_chk1", "an_chk2", "an_lock", "an_tmpl", "an_chk3"}

\* A call of u that is inside the engine's generate step on object i.
InEngine(u, i) ==
    /\ task[u].inst = i
    /\ task[u].pc \in {"an_gen", "chat_gen"}

\* GemmaInstance.cancel_processing, line 203-206, by caller t on object i:
\* self._cancel_processing = True.  creq and late record, for each call in
\* progress on i, that a cancellation was requested before, or after, it
\* entered the engine.
CancelProcessing(t, i, own) ==
    /\ inst' = [inst EXCEPT ![i].cancel = TRUE]
    /\ task' = [u \in Tasks |->
          IF u = t THEN own
          ELSE IF BeforeEngine(u, i) THEN [task[u] EXCEPT !.creq = TRUE]
          ELSE IF InEngine(u, i) THEN [task[u] EXCEPT !.late = TRUE]
          ELSE task[u]]

\* shutdown_instance, line 664-665: instance.cancel_processing()
ShutdownCancel(t) ==
    /\ task[t].pc = "sd_cancel"
    /\ CancelProcessing(t, task[t].inst, [task[t] EXCEPT !.pc = "sd_sleep"])
    /\ UNCHANGED <<instances, nInst, job, queue, calls>>
    /\ UNCHANGED calc

\* shutdown_instance, line 667: await asyncio.sleep(0.5)
ShutdownSleep(t) ==
    /\ task[t].pc = "sd_sleep"
    /\ task' = [task EXCEPT ![t].pc = "sd_submit"]
    /\ UNCHANGED <<instances, inst, nInst, job, queue, calls>>
    /\ UNCHANGED calc

\* shutdown_instance, line 670-671: run_in_executor(self.executor, instance.shutdown)
ShutdownSubmit(t) ==
    /\ task[t].pc = "sd_submit"
    /\ Submit(t, "teardown", task[t].inst)
    /\ task' = [task EXCEPT ![t].pc = "sd_await"]
    /\ UNCHANGED <<instances, inst, nInst, calls>>
    /\ UNCHANGED calc

ShutdownRegistryKept(id) == instances

\* What shutdown_instance does to the registry after the teardown (line 673-674).
ShutdownRegistry(id) == PopRegistry(id)

\* shutdown_instance, line 671-674: the teardown ended; pop the identifier.
\* The call returns to its caller, or to the loop of shutdown_all (line 691).
ShutdownPop(t) ==
    /\ task[t].pc = "sd_await"
    /\ job[t].pc = "done_ok"
    /\ RegistryLockFree
    /\ instances' = ShutdownRegistry(task[t].id)
    /\ inst' = IF instances'[task[t].id] = 0
               THEN PopMark(task[t].id, "shutdown") ELSE inst
    /\ task' = [task EXCEPT ![t] =
          IF task[t].op = "shutdown_all"
          THEN [task[t] EXCEPT !.pc = "sa_next", !.done = @ \cup {task[t].id}]
          ELSE Finish(t, "ok")]
    /\ job' = [job EXCEPT ![t] = NoJob]
    /\ UNCHANGED <<nInst, queue, calls>>
    /\ UNCHANGED calc

\* --------------------------------------------------- GemmaInstance.shutdown

LockFreeIgnored(i) == TRUE

\* The instance lock: 0 when free, t when caller t holds it in an inference
\* call, -t when the teardown job of caller t holds it.
LockFree(i) == inst[i].lock = 0

\* shutdown, line 297: with self._lock
TeardownLock(t) ==
    /\ JobStep(t, "td_lock")
    /\ LockFree(job[t].inst)
    /\ inst' = [inst EXCEPT ![job[t].inst].lock = -t]
    /\ job' = [job EXCEPT ![t].pc = "td_model"]
    /\ UNCHANGED <<instances, nInst, task, queue, calls>>
    /\ UNCHANGED calc

\* shutdown, line 299-301: self.model = None
TeardownModel(t) ==
    /\ JobStep(t, "td_model")
    /\ inst' = [inst EXCEPT ![job[t].inst].model = FALSE]
    /\ job' = [job EXCEPT ![t].pc = "td_proc"]
    /\ UNCHANGED <<instances, nInst, task, queue, calls>>
    /\ UNCHANGED calc

\* shutdown, line 302-304: self.processor = None
TeardownProcessor(t) ==
    /\ JobStep(t, "td_proc")
    /\ inst' = [inst EXCEPT ![job[t].inst].processor = FALSE]
    /\ job' = [job EXCEPT ![t].pc = "td_status"]
    /\ UNCHANGED <<instances, nInst, task, queue, calls>>
    /\ UNCHANGED calc

\* shutdown, line 306-311: the CUDA cache is emptied and self.status =
\* "stopped", the lock released; or torch.cuda.empty_cache() raises.
TeardownStatus(t) ==
    /\ JobStep(t, "td_status")
    /\ \/ /\ inst' = [inst EXCEPT ![job[t].inst].status = "stopped",
                                  ![job[t].inst].lock = 0]
          /\ job' = [job EXCEPT ![t].pc = "done_ok"]
       \/ /\ job' = [job EXCEPT ![t].pc = "td_exc_status"]
          /\ UNCHANGED inst
    /\ UNCHANGED <<instances, nInst, task, queue, calls>>
    /\ UNCHANGED calc

\* shutdown, line 313-315: except Exception: self.status = "error"
TeardownExcStatus(t) ==
    /\ JobStep(t, "td_exc_status")
    /\ inst' = [inst EXCEPT ![job[t].inst].status = "error"]
    /\ job' = [job EXCEPT ![t].pc = "td_exc_msg"]
    /\ UNCHANGED <<instances, nInst, task, queue, calls>>
    /\ UNCHANGED calc

\* shutdown, line 316: self.error_message = "Shutdown error: ..."; the
\* exception is swallowed and the lock released.
TeardownExcMsg(t) ==
    /\ JobStep(t, "td_exc_msg")
    /\ inst' = [inst EXCEPT ![job[t].inst].error_message = "shutdown",
                            ![job[t].inst].lock = 0]
    /\ job' = [job EXCEPT ![t].pc = "done_ok"]
    /\ UNCHANGED <<instances, nInst, task, queue, calls>>
    /\ UNCHANGED calc

\* ------------------------------------------------- GemmaInstance.is_ready

is_readyAlways(i) == TRUE

\* is_ready, line 191-197.  self.device is assigned before the processor is
\* loaded and never reset, so it is set whenever the status is "running".
is_ready(i) ==
    /\ inst[i].status = "running"
    /\ inst[i].model
    /\ inst[i].processor

\* The engine handle the calls dereference: instance.processor and
\* instance.model.
HandlePresent(i) == inst[i].model /\ inst[i].processor

\* `with instance._lock`, entered by caller t.
AcquireLock(t, i) ==
    /\ LockFree(i)
    /\ inst' = [inst EXCEPT ![i].lock = t]

\* ---------------------- GemmaManager.chat / GemmaInstance.generate_response

\* chat, line 351: get_instance; NotFound when absent.
ChatCall(t, id) ==
    /\ CanCall(t)
    /\ RegistryLockFree
    /\ calls' = calls + 1
    /\ task' = [task EXCEPT ![t] =
          IF IdRegistered(id)
          THEN [StartCall(t, "chat", id) EXCEPT !.pc = "chat_ready",
                                                !.inst = get_instance(id)]
          ELSE [StartCall(t, "chat", id) EXCEPT !.res = "NotFound"]]
    /\ UNCHANGED <<instances, inst, nInst, job, queue>>
    /\ UNCHANGED calc

\* generate_response, line 210-211: not ready.
ChatReady(t) ==
    /\ task[t].pc = "chat_ready"
    /\ task' = [task EXCEPT ![t] =
          IF is_ready(task[t].inst) THEN [task[t] EXCEPT !.pc = "chat_lock"]
          ELSE Finish(t, "NotReady")]
    /\ UNCHANGED <<instances, inst, nInst, job, queue, calls>>
    /\ UNCHANGED calc

\* generate_response, line 213: with self._lock
ChatLock(t) ==
    /\ task[t].pc = "chat_lock"
    /\ AcquireLock(t, task[t].inst)
    /\ task' = [task EXCEPT ![t].pc = "chat_tmpl"]
    /\ UNCHANGED <<instances, nInst, job, queue, calls>>
    /\ UNCHANGED calc

\* generate_response, line 216-241: the chat template and the token budget;
\* a released handle raises (None has no apply_chat_template, no device), the
\* lock is released and the exception propagates.
ChatTemplate(t) ==
    /\ task[t].pc = "chat_tmpl"
    /\ IF HandlePresent(task[t].inst)
       THEN /\ task' = [task EXCEPT ![t].pc = "chat_gen"]
            /\ UNCHANGED inst
       ELSE /\ task' = [task EXCEPT ![t] = Finish(t, "EngineFailure")]
            /\ inst' = [inst EXCEPT ![task[t].inst].lock = 0]
    /\ UNCHANGED <<instances, nInst, job, queue, calls>>
    /\ UNCHANGED calc

\* generate_response, line 244-261: self.model.generate and batch_decode
\* return, or raise; the lock is released.
ChatGenerate(t) ==
    /\ task[t].pc = "chat_gen"
    /\ \E r \in {"ok", "EngineFailure"} :
         task' = [task EXCEPT ![t] = Finish(t, r)]
    /\ inst' = [inst EXCEPT ![task[t].inst].lock = 0]
    /\ UNCHANGED <<instances, nInst, job, queue, calls>>
    /\ UNCHANGED calc

\* ------------- GemmaManager.analyze_image / analyze_image_from_pil and impl

ImageOps == {"analyze", "analyze_pil"}

\* analyze_image, line 384 / analyze_image_from_pil, line 400: get_instance.
AnalyzeCall(t, op, id) ==
    /\ CanCall(t)
    /\ RegistryLockFree
    /\ calls' = calls + 1
    /\ task' = [task EXCEPT ![t] =
          IF IdRegistered(id)
          THEN [StartCall(t, op, id) EXCEPT !.pc = "an_ready",
                                            !.inst = get_instance(id)]
          ELSE [StartCall(t, op, id) EXCEPT !.res = "NotFound"]]
    /\ UNCHANGED <<instances, inst, nInst, job, queue>>
    /\ UNCHANGED calc

\* analyze_image, line 387-388 / analyze_image_from_pil, line 403-404.
AnalyzeReady(t) ==
    /\ task[t].pc = "an_ready"
    /\ task' = [task EXCEPT ![t] =
          IF is_ready(task[t].inst) THEN [task[t] EXCEPT !.pc = "an_set"]
          ELSE Finish(t, "NotReady")]
    /\ UNCHANGED <<instances, inst, nInst, job, queue, calls>>
    /\ UNCHANGED calc

\* _analyze_image_impl, line 416 / _analyze_pil_image_impl, line 551:
\* instance._processing = True
AnalyzeSetProcessing(t) ==
    /\ task[t].pc = "an_set"
    /\ inst' = [inst EXCEPT ![task[t].inst].processing = TRUE]
    /\ task' = [task EXCEPT ![t].pc = "an_clear"]
    /\ UNCHANGED <<instances, nInst, job, queue, calls>>
    /\ UNCHANGED calc

\* The value line 417 / 552 writes to instance._cancel_processing.
StartCancelFlag(old) == FALSE

\* _analyze_image_impl, line 417 / _analyze_pil_image_impl, line 552:
\* instance._cancel_processing = False
AnalyzeClearCancel(t) ==
    /\ task[t].pc = "an_clear"
    /\ inst' = [inst EXCEPT ![task[t].inst].cancel =
                                StartCancelFlag(inst[task[t].inst].cancel)]
    /\ task' = [task EXCEPT ![t].pc = "an_chk1"]
    /\ UNCHANGED <<instances, nInst, job, queue, calls>>
    /\ UNCHANGED calc

\* The exception leaves the try block of the impl: the finally clause follows.
Raise(t, r) == [task[t] EXCEPT !.pc = "an_fin1", !.res = r]

\* A checkpoint: `if instance._cancel_processing: raise CancelledError`.
CancelSeen(i) == inst[i].cancel

\* _analyze_image_impl, line 420-427: the size limit of the encoded image,
\* then the first checkpoint.  _analyze_pil_image_impl, line 555-560: the
\* first checkpoint.
AnalyzeCheck1(t) ==
    /\ task[t].pc = "an_chk1"
    /\ \E too_large \in BOOLEAN :
         /\ too_large => task[t].op = "analyze"
         /\ task' = [task EXCEPT ![t] =
               IF too_large THEN Raise(t, "PayloadTooLarge")
               ELSE IF CancelSeen(task[t].inst) THEN Raise(t, "Cancelled")
               ELSE [task[t] EXCEPT !.pc =
                        IF task[t].op = "analyze" THEN "an_chk2" ELSE "an_lock"]]
    /\ UNCHANGED <<instances, inst, nInst, job, queue, calls>>
    /\ UNCHANGED calc

\* _analyze_image_impl, line 429-478: decode, the minimum size, the
\* normalisation to 100x100, then the second checkpoint.
AnalyzeCheck2(t) ==
    /\ task[t].pc = "an_chk2"
    /\ \E valid \in BOOLEAN :
         task' = [task EXCEPT ![t] =
               IF ~valid THEN Raise(t, "InvalidInput")
               ELSE IF CancelSeen(task[t].inst) THEN Raise(t, "Cancelled")
               ELSE [task[t] EXCEPT !.pc = "an_lock"]]
    /\ UNCHANGED <<instances, inst, nInst, job, queue, calls>>
    /\ UNCHANGED calc

\* _analyze_image_impl, line 480 / _analyze_pil_image_impl, line 569:
\* with instance._lock
AnalyzeLock(t) ==
    /\ task[t].pc = "an_lock"
    /\ AcquireLock(t, task[t].inst)
    /\ task' = [task EXCEPT ![t].pc = "an_tmpl"]
    /\ UNCHANGED <<instances, nInst, job, queue, calls>>
    /\ UNCHANGED calc

\* _analyze_image_impl, line 482-507 / _analyze_pil_image_impl, line 571-597:
\* the chat template; a released handle raises and the lock is released.
AnalyzeTemplate(t) ==
    /\ task[t].pc = "an_tmpl"
    /\ IF HandlePresent(task[t].inst)
       THEN /\ task' = [task EXCEPT ![t].pc = "an_chk3"]
            /\ UNCHANGED inst
       ELSE /\ task' = [task EXCEPT ![t] = Raise(t, "EngineFailure")]
            /\ inst' = [inst EXCEPT ![task[t].inst].lock = 0]
    /\ UNCHANGED <<instances, nInst, job, queue, calls>>
    /\ UNCHANGED calc

AnalyzeCheck3HoldsLock(t) ==
    /\ task[t].pc = "an_chk3"
    /\ task' = [task EXCEPT ![t] =
          IF CancelSeen(task[t].inst) THEN Raise(t, "Cancelled")
          ELSE [task[t] EXCEPT !.pc = "an_gen"]]
    /\ UNCHANGED <<instances, inst, nInst, job, queue, calls>>
    /\ UNCHANGED calc

\* _analyze_image_impl, line 509-519 / _analyze_pil_image_impl, line 599-605:
\* the last checkpoint, inside the lock; when it passes, the engine's generate
\* step is invoked.
AnalyzeCheck3(t) ==
    /\ task[t].pc = "an_chk3"
    /\ IF CancelSeen(task[t].inst)
       THEN /\ task' = [task EXCEPT ![t] = Raise(t, "Cancelled")]
            /\ inst' = [inst EXCEPT ![task[t].inst].lock = 0]
       ELSE /\ task' = [task EXCEPT ![t].pc = "an_gen"]
            /\ UNCHANGED inst
    /\ UNCHANGED <<instances, nInst, job, queue, calls>>
    /\ UNCHANGED calc

EngineResultsPreempted(cancelled) ==
    IF cancelled THEN {"Cancelled"} ELSE {"ok", "EngineFailure"}

\* The results the engine's generate step can end with, given the
\* cancellation flag at that time: it returns or raises, and never looks at
\* the flag.
EngineResults(cancelled) == {"ok", "EngineFailure"}

AnalyzeGenerateHoldsLock(t) ==
    /\ task[t].pc = "an_gen"
    /\ \E r \in EngineResults(inst[task[t].inst].cancel) :
         task' = [task EXCEPT ![t] = Raise(t, r)]
    /\ UNCHANGED <<instances, inst, nInst, job, queue, calls>>
    /\ UNCHANGED calc

\* _analyze_image_impl, line 519-541 / _analyze_pil_image_impl, line 605-626:
\* generate and decode return, or raise; the lock is released.
AnalyzeGenerate(t) ==
    /\ task[t].pc = "an_gen"
    /\ \E r \in EngineResults(inst[task[t].inst].cancel) :
         task' = [task EXCEPT ![t] = Raise(t, r)]
    /\ inst' = [inst EXCEPT ![task[t].inst].lock = 0]
    /\ UNCHANGED <<instances, nInst, job, queue, calls>>
    /\ UNCHANGED calc

\* _analyze_image_impl, line 542-544 / _analyze_pil_image_impl, line 627-629:
\* finally: instance._processing = False
AnalyzeFinally1(t) ==
    /\ task[t].pc = "an_fin1"
    /\ inst' = [inst EXCEPT ![task[t].inst].processing = FALSE]
    /\ task' = [task EXCEPT ![t].pc = "an_fin2"]
    /\ UNCHANGED <<instances, nInst, job, queue, calls>>
    /\ UNCHANGED calc

EndCancelFlagKept(old) == old

\* The value the finally clause writes to instance._cancel_processing.
EndCancelFlag(old) == FALSE

\* _analyze_image_impl, line 545 / _analyze_pil_image_impl, line 630:
\* instance._cancel_processing = False; the call returns or raises.
AnalyzeFinally2(t) ==
    /\ task[t].pc = "an_fin2"
    /\ inst' = [inst EXCEPT ![task[t].inst].cancel =
                                EndCancelFlag(inst[task[t].inst].cancel)]
    /\ task' = [task EXCEPT ![t].pc = "idle"]
    /\ UNCHANGED <<instances, nInst, job, queue, calls>>
    /\ UNCHANGED calc

\* ---------------------------------- GemmaManager.cancel_instance_processing

\* cancel_instance_processing, line 678-679 and 685-686: get_instance; the
\* ValueError of an absent identifier is caught and False returned.
CancelCall(t, id) ==
    /\ CanCall(t)
    /\ RegistryLockFree
    /\ calls' = calls + 1
    /\ task' = [task EXCEPT ![t] =
          IF IdRegistered(id)
          THEN [StartCall(t, "cancel", id) EXCEPT !.pc = "cancel_isproc",
                                                  !.inst = get_instance(id)]
          ELSE [StartCall(t, "cancel", id) EXCEPT !.res = "false"]]
    /\ UNCHANGED <<instances, inst, nInst, job, queue>>
    /\ UNCHANGED calc

\* cancel_instance_processing, line 680 and 684: if instance.is_processing()
CancelIsProcessing(t) ==
    /\ task[t].pc = "cancel_isproc"
    /\ task' = [task EXCEPT ![t] =
          IF inst[task[t].inst].processing
          THEN [task[t] EXCEPT !.pc = "cancel_set"]
          ELSE Finish(t, "false")]
    /\ UNCHANGED <<instances, inst, nInst, job, queue, calls>>
    /\ UNCHANGED calc

\* cancel_instance_processing, line 681-683: instance.cancel_processing();
\* return True
CancelSet(t) ==
    /\ task[t].pc = "cancel_set"
    /\ CancelProcessing(t, task[t].inst, Finish(t, "true"))
    /\ UNCHANGED <<instances, nInst, job, queue, calls>>
    /\ UNCHANGED calc

Next ==
    \E t \in Tasks :
        \/ \E id \in Ids : InitializeCall(t, id)
        \/ InitializeInsert(t)
        \/ InitializeReturn(t)
        \/ InitializeFail(t)
        \/ WorkerStart(t)
        \/ LoadCheck(t)
        \/ LoadPreStatus(t)
        \/ LoadPreMsg(t)
        \/ LoadProcessor(t)
        \/ LoadModel(t)
        \/ LoadRun(t)
        \/ LoadExcStatus(t)
        \/ LoadExcMsg(t)
        \/ \E id \in Ids : ShutdownCall(t, id)
        \/ ShutdownIsProcessing(t)
        \/ ShutdownCancel(t)
        \/ ShutdownSleep(t)
        \/ ShutdownSubmit(t)
        \/ ShutdownPop(t)
        \/ TeardownLock(t)
        \/ TeardownModel(t)
        \/ TeardownProcessor(t)
        \/ TeardownStatus(t)
        \/ TeardownExcStatus(t)
        \/ TeardownExcMsg(t)
        \/ \E id \in Ids : ChatCall(t, id)
        \/ ChatReady(t)
        \/ ChatLock(t)
        \/ ChatTemplate(t)
        \/ ChatGenerate(t)
        \/ \E id \in Ids, op \in ImageOps : AnalyzeCall(t, op, id)
        \/ AnalyzeReady(t)
        \/ AnalyzeSetProcessing(t)
        \/ AnalyzeClearCancel(t)
        \/ AnalyzeCheck1(t)
        \/ AnalyzeCheck2(t)
        \/ AnalyzeLock(t)
        \/ AnalyzeTemplate(t)
        \/ AnalyzeCheck3(t)
        \/ AnalyzeGenerate(t)
        \/ AnalyzeFinally1(t)
        \/ AnalyzeFinally2(t)
        \/ \E id \in Ids : CancelCall(t, id)
        \/ CancelIsProcessing(t)
        \/ CancelSet(t)

Spec == Init /\ [][Next]_vars

\* The manager with one instance in service: the state Spec reaches when
\* initialize_instance(1) has registered object 1 and its load has succeeded,
\* from which MaxCalls further operations are called.
InitServe ==
    /\ instances = [id \in Ids |-> IF id = 1 THEN 1 ELSE 0]
    /\ inst = [i \in Objs |->
          IF i = 1
          THEN [NewInstance(1) EXCEPT !.status = "running", !.model = TRUE,
                                      !.processor = TRUE, !.reg = "in",
                                      !.loaded = "ok"]
          ELSE NewInstance(0)]
    /\ nInst = 1
    /\ task = [t \in Tasks |->
          IF t = 1 THEN [IdleTask EXCEPT !.op = "init", !.id = 1, !.inst = 1,
                                         !.res = "ok"]
          ELSE IdleTask]
    /\ job = [t \in Tasks |-> NoJob]
    /\ queue = <<>>
    /\ calls = 0
    /\ calc = NoCalc

SpecServe == InitServe /\ [][Next]_vars

\* The instance in service with an image analysis in progress: it has set
\* the processing flag (line 416), decoded its image and passed the
\* checkpoints of lines 426 and 476, and is about to take the instance lock
\* (line 480).
InitDrain ==
    /\ instances = [id \in Ids |-> IF id = 1 THEN 1 ELSE 0]
    /\ inst = [i \in Objs |->
          IF i = 1
          THEN [NewInstance(1) EXCEPT !.status = "running", !.model = TRUE,
                                      !.processor = TRUE, !.reg = "in",
                                      !.loaded = "ok", !.processing = TRUE]
          ELSE NewInstance(0)]
    /\ nInst = 1
    /\ task = [t \in Tasks |->
          IF t = 1 THEN [StartCall(1, "analyze", 1) EXCEPT !.pc = "an_lock",
                                                          !.inst = 1]
          ELSE IdleTask]
    /\ job = [t \in Tasks |-> NoJob]
    /\ queue = <<>>
    /\ calls = 1
    /\ calc = NoCalc

\* Shutdown, inference and cancel requests on the instance in service, with
\* the workers of the executor; a step is taken whenever one is possible.
NextDrain ==
    \E t \in Tasks :
        \/ \E id \in Ids : ShutdownCall(t, id)
        \/ ShutdownIsProcessing(t)
        \/ ShutdownCancel(t)
        \/ ShutdownSleep(t)
        \/ ShutdownSubmit(t)
        \/ ShutdownPop(t)
        \/ WorkerStart(t)
        \/ TeardownLock(t)
        \/ TeardownModel(t)
        \/ TeardownProcessor(t)
        \/ TeardownStatus(t)
        \/ TeardownExcStatus(t)
        \/ TeardownExcMsg(t)
        \/ \E id \in Ids : ChatCall(t, id)
        \/ ChatReady(t)
        \/ ChatLock(t)
        \/ ChatTemplate(t)
        \/ ChatGenerate(t)
        \/ \E id \in Ids, op \in ImageOps : AnalyzeCall(t, op, id)
        \/ AnalyzeReady(t)
        \/ AnalyzeSetProcessing(t)
        \/ AnalyzeClearCancel(t)
        \/ AnalyzeCheck1(t)
        \/ AnalyzeCheck2(t)
        \/ AnalyzeLock(t)
        \/ AnalyzeTemplate(t)
        \/ AnalyzeCheck3(t)
        \/ AnalyzeGenerate(t)
        \/ AnalyzeFinally1(t)
        \/ AnalyzeFinally2(t)
        \/ \E id \in Ids : CancelCall(t, id)
        \/ CancelIsProcessing(t)
        \/ CancelSet(t)

SpecDrain == InitDrain /\ [][NextDrain]_vars /\ WF_vars(NextDrain)

\* ------------------------------------------------------ the worker pool

\* The executor with more jobs than workers: initialize_instance(1) has
\* registered object 1 and submitted its load, and every other caller is in
\* shutdown_instance(1) and has submitted its teardown.
InitPool ==
    /\ instances = [id \in Ids |-> IF id = 1 THEN 1 ELSE 0]
    /\ inst = [i \in Objs |->
          IF i = 1 THEN [NewInstance(1) EXCEPT !.reg = "in"] ELSE NewInstance(0)]
    /\ nInst = 1
    /\ task = [t \in Tasks |->
          IF t = 1
          THEN [IdleTask EXCEPT !.op = "init", !.id = 1, !.inst = 1,
                                !.pc = "init_await"]
          ELSE [IdleTask EXCEPT !.op = "shutdown", !.id = 1, !.inst = 1,
                                !.pc = "sd_await"]]
    /\ job = [t \in Tasks |->
          [kind |-> IF t = 1 THEN "load" ELSE "teardown", inst |-> 1,
           pc |-> "queued"]]
    /\ queue = [t \in 1..NumTasks |-> t]
    /\ calls = NumTasks
    /\ calc = NoCalc

\* The executor's workers and the callers that await them.
NextPool ==
    \E t \in Tasks :
        \/ WorkerStart(t)
        \/ LoadCheck(t)
        \/ LoadPreStatus(t)
        \/ LoadPreMsg(t)
        \/ LoadProcessor(t)
        \/ LoadModel(t)
        \/ LoadRun(t)
        \/ LoadExcStatus(t)
        \/ LoadExcMsg(t)
        \/ InitializeReturn(t)
        \/ InitializeFail(t)
        \/ TeardownLock(t)
        \/ TeardownModel(t)
        \/ TeardownProcessor(t)
        \/ TeardownStatus(t)
        \/ TeardownExcStatus(t)
        \/ TeardownExcMsg(t)
        \/ ShutdownPop(t)

\* The worker threads and the event loop are scheduled fairly: a step that
\* stays possible is eventually taken.
SpecPool == InitPool /\ [][NextPool]_vars /\ WF_vars(NextPool)

\* More creations at once than the pool has workers: every caller is in
\* initialize_instance with an identifier of its own, has registered its
\* instance and submitted its load.  The first max_workers loads are
\* executing, the last of them just started, the one before it with its
\* processor loaded, the earlier ones with their model loaded; the other
\* loads wait in the queue.
LoadIds == 1..NumTasks

LoadPoint(t) ==
    IF t > max_workers THEN "queued"
    ELSE IF t = max_workers THEN "load_check"
    ELSE IF t = max_workers - 1 THEN "load_model"
    ELSE "load_run"

InitLoads ==
    /\ instances = [id \in LoadIds |-> id]
    /\ inst = [i \in LoadIds |->
          [NewInstance(i) EXCEPT !.reg = "in",
              !.processor = LoadPoint(i) \in {"load_model", "load_run"},
              !.model = LoadPoint(i) = "load_run"]]
    /\ nInst = NumTasks
    /\ task = [t \in Tasks |->
          [IdleTask EXCEPT !.op = "init", !.id = t, !.inst = t,
                           !.pc = "init_await"]]
    /\ job = [t \in Tasks |->
          [kind |-> "load", inst |-> t, pc |-> LoadPoint(t)]]
    /\ queue = SelectSeq([t \in 1..NumTasks |-> t],
                         LAMBDA t : LoadPoint(t) = "queued")
    /\ calls = NumTasks
    /\ calc = NoCalc

\* The workers that load, and the callers that await them.
NextLoads ==
    \E t \in Tasks :
        \/ WorkerStart(t)
        \/ LoadCheck(t)
        \/ LoadPreStatus(t)
        \/ LoadPreMsg(t)
        \/ LoadProcessor(t)
        \/ LoadModel(t)
        \/ LoadRun(t)
        \/ LoadExcStatus(t)
        \/ LoadExcMsg(t)
        \/ InitializeReturn(t)
        \/ InitializeFail(t)

SpecLoads == InitLoads /\ [][NextLoads]_vars /\ WF_vars(NextLoads)

\* ----------------------------------------------- GemmaManager.shutdown_all

\* list(self.instances.keys()), line 690: the registered identifiers, in the
\* dictionary's order (insertion order; identifiers are numbered in it).
RegisteredIds ==
    SelectSeq([id \in 1..Cardinality(DOMAIN instances) |-> id],
              LAMBDA id : IdRegistered(id))

\* shutdown_all, line 690: the identifiers are enumerated once, at the start.
ShutdownAllCall(t) ==
    /\ CanCall(t)
    /\ calls' = calls + 1
    /\ task' = [task EXCEPT ![t] =
          [StartCall(t, "shutdown_all", 0) EXCEPT
              !.pc = "sa_next", !.todo = RegisteredIds,
              !.enum = {id \in DOMAIN instances : IdRegistered(id)}]]
    /\ UNCHANGED <<instances, inst, nInst, job, queue>>
    /\ UNCHANGED calc

OnLoopErrorRaised(rec) == [rec EXCEPT !.pc = "idle", !.res = "NotFound"]

\* shutdown_all, line 694-695: `except Exception` logs the failure of one
\* shutdown_instance and the loop goes on.
OnLoopError(rec) == [rec EXCEPT !.pc = "sa_next"]

\* shutdown_all, line 691-693 and 697: the next identifier of the list, and
\* the get_instance of its shutdown_instance (line 660), which raises when
\* the identifier is no longer registered; after the last one the call
\* returns.
ShutdownAllNext(t) ==
    /\ task[t].pc = "sa_next"
    /\ task[t].todo # <<>> => RegistryLockFree
    /\ task' = [task EXCEPT ![t] =
          IF task[t].todo = <<>> THEN Finish(t, "ok")
          ELSE IF IdRegistered(Head(task[t].todo))
          THEN [task[t] EXCEPT !.pc = "sd_isproc", !.id = Head(task[t].todo),
                               !.inst = get_instance(Head(task[t].todo)),
                               !.todo = Tail(task[t].todo)]
          ELSE OnLoopError([task[t] EXCEPT !.id = Head(task[t].todo),
                                           !.inst = 0,
                                           !.todo = Tail(task[t].todo),
                                           !.errs = @ \cup {Head(task[t].todo)}])]
    /\ UNCHANGED <<instances, inst, nInst, job, queue, calls>>
    /\ UNCHANGED calc

\* The manager with NumAllIds instances in service, registered in the order
\* of their identifiers: the state after that many successful
\* initialize_instance calls.
InitAll ==
    /\ instances = [id \in AllIds |-> id]
    /\ inst = [i \in Objs |->
          IF i <= NumAllIds
          THEN [NewInstance(i) EXCEPT !.status = "running", !.model = TRUE,
                                      !.processor = TRUE, !.reg = "in",
                                      !.loaded = "ok"]
          ELSE NewInstance(0)]
    /\ nInst = NumAllIds
    /\ task = [t \in Tasks |-> IdleTask]
    /\ job = [t \in Tasks |-> NoJob]
    /\ queue = <<>>
    /\ calls = 0
    /\ calc = NoCalc

\* shutdown_all, shutdown_instance and chat on instances in service; no
\* further instance is created.
NextAll ==
    \E t \in Tasks :
        \/ ShutdownAllCall(t)
        \/ ShutdownAllNext(t)
        \/ \E id \in AllIds : ShutdownCall(t, id)
        \/ ShutdownIsProcessing(t)
        \/ ShutdownSubmit(t)
        \/ ShutdownPop(t)
        \/ WorkerStart(t)
        \/ TeardownLock(t)
        \/ TeardownModel(t)
        \/ TeardownProcessor(t)
        \/ TeardownStatus(t)
        \/ TeardownExcStatus(t)
        \/ TeardownExcMsg(t)
        \/ \E id \in AllIds : ChatCall(t, id)
        \/ ChatReady(t)
        \/ ChatLock(t)
        \/ ChatTemplate(t)
        \/ ChatGenerate(t)

SpecAll == InitAll /\ [][NextAll]_vars

\* ---------------------------------------------- GemmaManager.list_instances

\* list_instances, line 653-655: the registry lock is taken and the values of
\* the dictionary are iterated, in its order.
ListCall(t) ==
    /\ CanCall(t)
    /\ RegistryLockFree
    /\ calls' = calls + 1
    /\ task' = [task EXCEPT ![t] =
          [StartCall(t, "list", 0) EXCEPT !.pc = "list_info",
                                          !.todo = RegisteredIds]]
    /\ UNCHANGED <<instances, inst, nInst, job, queue>>
    /\ UNCHANGED calc

\* GemmaInstance.get_info, line 282-292, can run on object i: it reads the
\* fields of the instance and takes no lock.
get_info(i) == TRUE

\* list_instances, line 656: instance.get_info() of the next instance, with
\* the registry lock held; enum records the identifiers reported.
ListInfo(t) ==
    /\ task[t].pc = "list_info"
    /\ task[t].todo # <<>>
    /\ get_info(get_instance(Head(task[t].todo)))
    /\ task' = [task EXCEPT ![t].todo = Tail(@),
                            ![t].enum = @ \cup {Head(task[t].todo)}]
    /\ UNCHANGED <<instances, inst, nInst, job, queue, calls>>
    /\ UNCHANGED calc

\* list_instances, line 655-656: the list is complete; the registry lock is
\* released and the call returns.
ListReturn(t) ==
    /\ task[t].pc = "list_info"
    /\ task[t].todo = <<>>
    /\ task' = [task EXCEPT ![t] = Finish(t, "ok")]
    /\ UNCHANGED <<instances, inst, nInst, job, queue, calls>>
    /\ UNCHANGED calc

\* ------------------------------------------------------- the event loop

\* src/app/main.py: every route is an `async def` on the one event loop of
\* the server, and awaits the manager's coroutine.  A coroutine keeps the
\* loop from its call to its next suspension or its return.  The manager
\* suspends at three places only: the await of the load (line 340), the
\* sleep of shutdown_instance (line 667) and the await of the teardown (line
\* 671).  generate_response, _analyze_image_impl and _analyze_pil_image_impl
\* contain no suspension: the engine's generate step runs on the loop's
\* thread.  The executor's workers run beside the loop.
Suspended(t) == task[t].pc \in {"init_await", "sd_sleep", "sd_await"}

OnLoop(t) == task[t].pc # "idle" /\ ~Suspended(t)

\* Caller t may run: it has the loop, or the loop is idle.
LoopTurn(t) == OnLoop(t) \/ \A u \in Tasks : ~OnLoop(u)

\* The server with one instance in service and the other identifiers free.
InitLoop ==
    /\ instances = [id \in AllIds |-> IF id = 1 THEN 1 ELSE 0]
    /\ inst = [i \in Objs |->
          IF i = 1
          THEN [NewInstance(1) EXCEPT !.status = "running", !.model = TRUE,
                                      !.processor = TRUE, !.reg = "in",
                                      !.loaded = "ok"]
          ELSE NewInstance(0)]
    /\ nInst = 1
    /\ task = [t \in Tasks |-> IdleTask]
    /\ job = [t \in Tasks |-> NoJob]
    /\ queue = <<>>
    /\ calls = 0
    /\ calc = NoCalc

\* The coroutines take their steps in turn on the loop; the workers of the
\* executor take theirs at any time.  An image analysis sets and clears the
\* processing flag within one turn, so shutdown_instance never finds it set
\* at line 663 and its lines 664-667 are not steps of this specification.
NextLoop ==
    \E t \in Tasks :
        \/ \E id \in AllIds : LoopTurn(t) /\ InitializeCall(t, id)
        \/ LoopTurn(t) /\ InitializeInsert(t)
        \/ LoopTurn(t) /\ InitializeReturn(t)
        \/ LoopTurn(t) /\ InitializeFail(t)
        \/ \E id \in AllIds : LoopTurn(t) /\ ShutdownCall(t, id)
        \/ LoopTurn(t) /\ ShutdownIsProcessing(t)
        \/ LoopTurn(t) /\ ShutdownSubmit(t)
        \/ LoopTurn(t) /\ ShutdownPop(t)
        \/ \E id \in AllIds : LoopTurn(t) /\ ChatCall(t, id)
        \/ LoopTurn(t) /\ ChatReady(t)
        \/ LoopTurn(t) /\ ChatLock(t)
        \/ LoopTurn(t) /\ ChatTemplate(t)
        \/ LoopTurn(t) /\ ChatGenerate(t)
        \/ \E id \in AllIds, op \in ImageOps : LoopTurn(t) /\ AnalyzeCall(t, op, id)
        \/ LoopTurn(t) /\ AnalyzeReady(t)
        \/ LoopTurn(t) /\ AnalyzeSetProcessing(t)
        \/ LoopTurn(t) /\ AnalyzeClearCancel(t)
        \/ LoopTurn(t) /\ AnalyzeCheck1(t)
        \/ LoopTurn(t) /\ AnalyzeCheck2(t)
        \/ LoopTurn(t) /\ AnalyzeLock(t)
        \/ LoopTurn(t) /\ AnalyzeTemplate(t)
        \/ LoopTurn(t) /\ AnalyzeCheck3(t)
        \/ LoopTurn(t) /\ AnalyzeGenerate(t)
        \/ LoopTurn(t) /\ AnalyzeFinally1(t)
        \/ LoopTurn(t) /\ AnalyzeFinally2(t)
        \/ LoopTurn(t) /\ ListCall(t)
        \/ LoopTurn(t) /\ ListInfo(t)
        \/ LoopTurn(t) /\ ListReturn(t)
        \/ WorkerStart(t)
        \/ LoadCheck(t)
        \/ LoadPreStatus(t)
        \/ LoadPreMsg(t)
        \/ LoadProcessor(t)
        \/ LoadModel(t)
        \/ LoadRun(t)
        \/ LoadExcStatus(t)
        \/ LoadExcMsg(t)
        \/ TeardownLock(t)
        \/ TeardownModel(t)
        \/ TeardownProcessor(t)
        \/ TeardownStatus(t)
        \/ TeardownExcStatus(t)
        \/ TeardownExcMsg(t)

SpecLoop == InitLoop /\ [][NextLoop]_vars

\* ------------------------------------------------------- the token budget

\* Python's built-in max and min of two integers.
max(a, b) == IF a >= b THEN a ELSE b

min(a, b) == IF a <= b THEN a ELSE b

chat_max_new_tokensUnclamped(max_length, input_len) == max_length - input_len

\* generate_response, line 240-241:
\*   max_new_tokens = self.config.max_length - input_len
\*   max_new_tokens = max(50, min(max_new_tokens, 100))
chat_max_new_tokens(max_length, input_len) ==
    max(50, min(max_length - input_len, 100))

\* _analyze_image_impl, line 516-517: the same two statements.
analyze_max_new_tokens(max_length, input_len) ==
    max(50, min(max_length - input_len, 100))

\* _analyze_pil_image_impl, line 607: max_new_tokens=100
pil_max_new_tokens(max_length, input_len) == 100

\* The values of config.max_length that the request model accepts (ge=1,
\* le=8192), up to a bound and the largest one, and the lengths of the
\* tokenized input.
MaxLengths == (1..MaxLengthBound) \cup {max_length_le}

InputLens == 0..InputLenBound

\* A call that has tokenized its input and is about to compute its budget.
InitBudget ==
    /\ instances = [id \in Ids |-> 0]
    /\ inst = [i \in Objs |-> NewInstance(0)]
    /\ nInst = 0
    /\ task = [t \in Tasks |-> IdleTask]
    /\ job = [t \in Tasks |-> NoJob]
    /\ queue = <<>>
    /\ calls = 0
    /\ calc \in [fn : {"chat", "analyze", "analyze_pil"},
                 max_length : MaxLengths, input_len : InputLens, out : {-1}]

ChatBudget ==
    /\ calc.fn = "chat" /\ calc.out = -1
    /\ calc' = [calc EXCEPT !.out = chat_max_new_tokens(calc.max_length, calc.input_len)]
    /\ UNCHANGED <<instances, inst, nInst, task, job, queue, calls>>

AnalyzeBudget ==
    /\ calc.fn = "analyze" /\ calc.out = -1
    /\ calc' = [calc EXCEPT !.out = analyze_max_new_tokens(calc.max_length, calc.input_len)]
    /\ UNCHANGED <<instances, inst, nInst, task, job, queue, calls>>

PilBudget ==
    /\ calc.fn = "analyze_pil" /\ calc.out = -1
    /\ calc' = [calc EXCEPT !.out = pil_max_new_tokens(calc.max_length, calc.input_len)]
    /\ UNCHANGED <<instances, inst, nInst, task, job, queue, calls>>

NextBudget == ChatBudget \/ AnalyzeBudget \/ PilBudget

SpecBudget == InitBudget /\ [][NextBudget]_vars

\* ------------------------------------------------- the image normalisation

\* The widths and heights of decoded images: every side up to a bound, and
\* some large ones.
Sides == (1..SideBound) \cup {200, 400, 1000, 1010, 2000}

\* target_size = (100, 100), line 448
target_size == <<100, 100>>

\* aspect_ratio = original_width / original_height is a binary64 float, and
\* so are 100 / aspect_ratio and 100 * aspect_ratio.  For these sizes
\* (width, height) the exact value of the scaled side is an integer and the
\* float computation ends just below it, so that int() gives one less; for
\* all other sizes up to SideBound + 10 and the large sides, int() of the
\* float equals the floor of the exact quotient.
float_below ==
    { <<25, 11>>, <<25, 22>>, <<29, 50>>, <<29, 100>>, <<50, 11>>, <<50, 22>>,
      <<50, 44>>, <<57, 100>>, <<58, 100>>, <<58, 200>>, <<75, 33>>,
      <<75, 66>>, <<100, 11>>, <<100, 22>>, <<100, 44>>, <<100, 83>>,
      <<100, 88>>, <<100, 91>>, <<114, 200>>, <<116, 200>>, <<116, 400>>,
      <<125, 55>>, <<125, 110>>, <<200, 22>>, <<200, 44>>, <<200, 88>>,
      <<400, 44>>, <<400, 88>>, <<1000, 110>> }

scaled_sideBelow(w, h, num, den) == ((100 * num) \div den) - 1

\* int(100 / aspect_ratio) for a landscape image, int(100 * aspect_ratio)
\* otherwise (line 455, 459): the floor of the exact quotient num * 100 / den,
\* less one where the float falls below it.
scaled_side(w, h, num, den) ==
    ((100 * num) \div den) - (IF <<w, h>> \in float_below THEN 1 ELSE 0)

\* line 450-459: (new_width, new_height); aspect_ratio > 1 iff width > height.
new_size(w, h) ==
    IF w > h THEN <<target_size[1], scaled_side(w, h, h, w)>>
    ELSE <<scaled_side(w, h, w, h), target_size[2]>>

\* line 465-469: (x_offset, y_offset)
paste_offset(ns) ==
    <<(target_size[1] - ns[1]) \div 2, (target_size[2] - ns[2]) \div 2>>

\* Image.resize, line 462: Pillow raises ValueError ("height and width must
\* be > 0") for a side below 1.
resize_raises(ns) == ns[1] < 1 \/ ns[2] < 1

\* _analyze_image_impl, line 441-472 and 533-541, for a decoded image of size
\* (w, h): the minimum size, the resize, the paste on the white canvas that
\* becomes the engine's input, and the dimensions the response reports.
normalize(w, h) ==
    IF w < 10 \/ h < 10
    THEN [status |-> "InvalidInput", resized |-> <<0, 0>>, offset |-> <<0, 0>>,
          engine_input |-> <<0, 0>>, image_dimensions |-> <<0, 0>>]
    ELSE IF resize_raises(new_size(w, h))
    THEN [status |-> "ResizeError", resized |-> new_size(w, h),
          offset |-> <<0, 0>>, engine_input |-> <<0, 0>>,
          image_dimensions |-> <<0, 0>>]
    ELSE [status |-> "ok", resized |-> new_size(w, h),
          offset |-> paste_offset(new_size(w, h)),
          engine_input |-> target_size, image_dimensions |-> <<w, h>>]

NoOut ==
    [status |-> "none", resized |-> <<0, 0>>, offset |-> <<0, 0>>,
     engine_input |-> <<0, 0>>, image_dimensions |-> <<0, 0>>]

\* A base64 image-analysis call that has decoded its image.
InitImage ==
    /\ instances = [id \in Ids |-> 0]
    /\ inst = [i \in Objs |-> NewInstance(0)]
    /\ nInst = 0
    /\ task = [t \in Tasks |-> IdleTask]
    /\ job = [t \in Tasks |-> NoJob]
    /\ queue = <<>>
    /\ calls = 0
    /\ calc \in [fn : {"normalize"}, w : Sides, h : Sides, out : {NoOut},
                 again : {NoOut}]

NormalizeImage ==
    /\ calc.fn = "normalize" /\ calc.out = NoOut
    /\ calc' = [calc EXCEPT !.out = normalize(calc.w, calc.h)]
    /\ UNCHANGED <<instances, inst, nInst, task, job, queue, calls>>

\* The engine input of a call, the 100x100 canvas of line 465-472, is the
\* image of a further call: line 441-472 once more.
NormalizeAgain ==
    /\ calc.fn = "normalize" /\ calc.out # NoOut /\ calc.out.status = "ok"
    /\ calc.again = NoOut
    /\ calc' = [calc EXCEPT !.again =
          normalize(calc.out.engine_input[1], calc.out.engine_input[2])]
    /\ UNCHANGED <<instances, inst, nInst, task, job, queue, calls>>

NextImage == NormalizeImage \/ NormalizeAgain

SpecImage == InitImage /\ [][NextImage]_vars

\* ---------------------------------------- handle_get_device_capabilities

\* torch.cuda.get_device_capability() returns (major, minor); the minor
\* number of a compute capability is a single digit.
Majors == 1..MajorBound

Minors == 0..9

\* capability_version = major + (minor / 10), line 182, in tenths: for a
\* single-digit minor the float comparisons with 7.0 and 8.0 are those of
\* 10 * major + minor with 70 and 80.
capability_version10(major, minor) == 10 * major + minor

cuda_compatibleAny(major, minor) == TRUE

\* cuda_compatible = capability_version >= 7.0, line 186
cuda_compatible(major, minor) == capability_version10(major, minor) >= 70

\* bfloat16_supported = capability_version >= 8.0, line 190
bfloat16_supported(major, minor) == capability_version10(major, minor) >= 80

\* handle_get_device_capabilities, line 166-232, for the answers of torch:
\* cuda_available, device_count, the capability, and whether one of the
\* probes raises (then the safe defaults of line 225-232 are returned).
get_device_capabilities(available, count, major, minor, raises) ==
    IF raises
    THEN [recommended_device |-> "cpu", cuda_compatible |-> FALSE,
          bfloat16_supported |-> FALSE, incompatibility_reason |-> "failed"]
    ELSE IF available /\ count > 0
    THEN [recommended_device |->
              IF cuda_compatible(major, minor) THEN "cuda" ELSE "cpu",
          cuda_compatible |-> cuda_compatible(major, minor),
          bfloat16_supported |-> bfloat16_supported(major, minor),
          incompatibility_reason |->
              IF ~cuda_compatible(major, minor) THEN "too_old"
              ELSE IF ~bfloat16_supported(major, minor) THEN "no_bfloat16"
              ELSE "none"]
    ELSE [recommended_device |-> "cpu", cuda_compatible |-> FALSE,
          bfloat16_supported |-> FALSE, incompatibility_reason |-> "none"]

NoCap ==
    [recommended_device |-> "-", cuda_compatible |-> FALSE,
     bfloat16_supported |-> FALSE, incompatibility_reason |-> "-"]

\* GemmaInstance.initialize, line 74-111: self.device after the device
\* selection, for the requested config.device and the answer of
\* torch.cuda.is_available().  AUTO takes cuda whenever it is available; a
\* requested cuda that is not available falls back to cpu.
resolve_device(device, available) ==
    IF device = "auto" THEN (IF available THEN "cuda" ELSE "cpu")
    ELSE IF device = "cuda" /\ ~available THEN "cpu"
    ELSE device

\* DeviceEnum, models.py line 10-14.
DeviceEnum == {"cpu", "cuda", "auto"}

\* A load that is about to select its device; torch reports a device count
\* above 0 exactly when cuda is available.
DeviceChoices ==
    {c \in [fn : {"initialize"}, device : DeviceEnum, available : BOOLEAN,
            count : 0..1, major : Majors, minor : Minors, out : {"-"}] :
        c.available <=> c.count > 0}

\* A capability query or a device selection, for every hardware the bounds describe.
InitDevice ==
    /\ instances = [id \in Ids |-> 0]
    /\ inst = [i \in Objs |-> NewInstance(0)]
    /\ nInst = 0
    /\ task = [t \in Tasks |-> IdleTask]
    /\ job = [t \in Tasks |-> NoJob]
    /\ queue = <<>>
    /\ calls = 0
    /\ calc \in [fn : {"capabilities"}, available : BOOLEAN, count : 0..1,
                    major : Majors, minor : Minors, raises : BOOLEAN,
                    out : {NoCap}]
                \cup DeviceChoices

GetDeviceCapabilities ==
    /\ calc.fn = "capabilities" /\ calc.out = NoCap
    /\ calc' = [calc EXCEPT !.out =
          get_device_capabilities(calc.available, calc.count, calc.major,
                                  calc.minor, calc.raises)]
    /\ UNCHANGED <<instances, inst, nInst, task, job, queue, calls>>

ResolveDevice ==
    /\ calc.fn = "initialize" /\ calc.out = "-"
    /\ calc' = [calc EXCEPT !.out = resolve_device(calc.device, calc.available)]
    /\ UNCHANGED <<instances, inst, nInst, task, job, queue, calls>>

NextDevice == GetDeviceCapabilities \/ ResolveDevice

SpecDevice == InitDevice /\ [][NextDevice]_vars

\* ------------------------------------------- failures of an image analysis

\* _analyze_image_impl, line 421: max_base64_size = 50 * 1024 * 1024
max_base64_size == 50 * 1024 * 1024

PayloadLens == {0, max_base64_size, max_base64_size + 1}

FailSides == {5, 10, 100, 1010}

\* analyze_image, line 381-395, with _analyze_image_impl, line 412-545: the
\* exception the call ends with, as its class and the head of its message,
\* or none.  The checks are in the order of the code: get_instance (line
\* 636-637), is_ready (line 387-388), the encoded size (line 422-423), the
\* decoding (line 430-434), the minimum size (line 442-443), the resize
\* (line 462, Pillow's ValueError), the engine (any other exception).
analyze_image(registered, ready, len, decodable, w, h, engine_raises) ==
    IF ~registered
    THEN [exc |-> "ValueError", detail |-> "not found"]
    ELSE IF ~ready
    THEN [exc |-> "ValueError", detail |-> "is not ready for inference"]
    ELSE IF len > max_base64_size
    THEN [exc |-> "ValueError", detail |-> "Image data too large"]
    ELSE IF ~decodable
    THEN [exc |-> "ValueError", detail |-> "Invalid image data"]
    ELSE IF normalize(w, h).status = "InvalidInput"
    THEN [exc |-> "ValueError", detail |-> "Image too small"]
    ELSE IF normalize(w, h).status = "ResizeError"
    THEN [exc |-> "ValueError", detail |-> "height and width must be > 0"]
    ELSE IF engine_raises
    THEN [exc |-> "Exception", detail |-> "engine"]
    ELSE [exc |-> "none", detail |-> "-"]

\* handle_image_analysis, gemma_endpoints.py line 45-65: the response's
\* status code and detail.  except ValueError: 404; except Exception: 500.
handle_image_analysis(r) ==
    IF r.exc = "none" THEN [status_code |-> 200, detail |-> "-"]
    ELSE IF r.exc = "ValueError"
    THEN [status_code |-> 404, detail |-> r.detail]
    ELSE [status_code |-> 500, detail |-> r.detail]

Requests ==
    [registered : BOOLEAN, ready : BOOLEAN, len : PayloadLens,
     decodable : BOOLEAN, w : FailSides, h : FailSides,
     engine_raises : BOOLEAN]

Raised(q) ==
    analyze_image(q.registered, q.ready, q.len, q.decodable, q.w, q.h,
                  q.engine_raises)

NoRaise == [exc |-> "-", detail |-> "-"]

NoResponse == [status_code |-> 0, detail |-> "-"]

\* A request of POST /api/analyze-image, main.py line 150-166.
InitFailure ==
    /\ instances = [id \in Ids |-> 0]
    /\ inst = [i \in Objs |-> NewInstance(0)]
    /\ nInst = 0
    /\ task = [t \in Tasks |-> IdleTask]
    /\ job = [t \in Tasks |-> NoJob]
    /\ queue = <<>>
    /\ calls = 0
    /\ calc \in [fn : {"analyze_image"}, req : Requests, raised : {NoRaise},
                 out : {NoResponse}]

\* The manager's call ends.
AnalyzeImageEnds ==
    /\ calc.fn = "analyze_image" /\ calc.raised = NoRaise
    /\ calc' = [calc EXCEPT !.raised = Raised(calc.req)]
    /\ UNCHANGED <<instances, inst, nInst, task, job, queue, calls>>

\* The handler answers.
HandleImageAnalysis ==
    /\ calc.fn = "analyze_image" /\ calc.raised # NoRaise
    /\ calc.out = NoResponse
    /\ calc' = [calc EXCEPT !.out = handle_image_analysis(calc.raised)]
    /\ UNCHANGED <<instances, inst, nInst, task, job, queue, calls>>

NextFailure == AnalyzeImageEnds \/ HandleImageAnalysis

SpecFailure == InitFailure /\ [][NextFailure]_vars

\* ------------------------------------------------------------------ claims

Ended(t) == task[t].pc = "idle" /\ task[t].op # "none"

\* A load or a teardown is executing on object i.
JobOn(i) == \E t \in Tasks : Running(t) /\ job[t].inst = i

\* Caller t holds the lock of its instance in an inference call.
InLock(t) ==
    task[t].pc \in {"chat_tmpl", "chat_gen", "an_tmpl", "an_chk3", "an_gen"}

\* An image analysis is between its first and its last statement on object i.
AnalysisInProgress(i) ==
    \E t \in Tasks :
        /\ task[t].inst = i
        /\ task[t].pc \in {"an_clear", "an_chk1", "an_chk2", "an_lock",
                           "an_tmpl", "an_chk3", "an_gen", "an_fin1"}

C2_CallerDoesNotWait ==
    \A t \in Tasks :
        task[t].pc = "init_await" => inst[task[t].inst].loaded # "no"

\* C2 (amended): initialize_instance returns the instance's info only after
\* its load task has ended successfully.
C2_ReturnsAfterLoad ==
    \A t \in Tasks :
        (Ended(t) /\ task[t].op = "init" /\ task[t].res = "ok")
            => inst[task[t].inst].loaded = "ok"

C2_Witness ==
    \E t \in Tasks :
        /\ Ended(t) /\ task[t].op = "init" /\ task[t].res = "ok"
        /\ inst[task[t].inst].status = "running"

\* C3 (as claimed): an instance whose load failed is not removed from the
\* registry until an explicit shutdown_instance: unless a shutdown popped it,
\* it is still registered.
C3_FailedLoadStaysRegistered ==
    \A i \in Objs : inst[i].loaded = "exc" => inst[i].reg \in {"in", "shutdown"}

\* C3 (amended): when the load fails, the instance has the failure detail and
\* state Error (Stopped if a concurrent shutdown tore it down), and the
\* failed initialize_instance call has removed the identifier: the instance
\* is no longer the registry's entry.
C3_FailedLoadEvicted ==
    \A t \in Tasks :
        (Ended(t) /\ task[t].op = "init" /\ task[t].res = "EngineFailure")
            => /\ inst[task[t].inst].loaded = "exc"
               /\ inst[task[t].inst].error_message # "none"
               /\ inst[task[t].inst].status \in {"error", "stopped"}
               /\ instances[task[t].id] # task[t].inst

C3_Witness ==
    \E t \in Tasks :
        /\ Ended(t) /\ task[t].op = "init" /\ task[t].res = "EngineFailure"
        /\ inst[task[t].inst].status = "error"
        /\ inst[task[t].inst].reg = "evicted"
        /\ ~IdRegistered(task[t].id)

\* C4: at most one chat or image-analysis call of an instance is between
\* acquiring and releasing the instance lock, hence inside the engine.
C4_OneCallInEngine ==
    \A t1, t2 \in Tasks :
        (t1 # t2 /\ InLock(t1) /\ InLock(t2)) => task[t1].inst # task[t2].inst

C4_Witness ==
    \E t1, t2 \in Tasks :
        /\ task[t1].inst = task[t2].inst
        /\ task[t1].pc \in {"an_gen", "chat_gen"}
        /\ task[t2].pc \in {"an_lock", "chat_lock"}

\* C5: the state is Running iff the engine handle is non-null, after load
\* success, after load failure and after shutdown: whenever no load and no
\* teardown is executing on the instance.
C5_RunningIffHandle ==
    \A i \in Objs :
        (inst[i].id # 0 /\ ~JobOn(i))
            => ((inst[i].status = "running") <=> HandlePresent(i))

C7_LateCancelNoEffect ==
    \A t \in Tasks :
        task[t].late => \/ task[t].pc \in {"an_gen", "chat_gen"}
                        \/ task[t].res \in {"ok", "EngineFailure"}

C7_Witness ==
    \E t \in Tasks :
        /\ task[t].late /\ Ended(t)
        /\ task[t].op = "analyze" /\ task[t].res = "ok"

\* C8: an image-analysis call that ends, however it ends, clears the
\* processing flag and the cancellation flag: no instance is left processing
\* when no analysis is in progress on it, the last statement of every call
\* leaves the cancellation flag false, and a call ends with Cancelled only if
\* the cancellation was requested during that same call.
C8_FlagsClearedAtEnd ==
    /\ [](\A i \in Objs : ~AnalysisInProgress(i) => ~inst[i].processing)
    /\ [](\A t \in Tasks : task[t].res = "Cancelled" => task[t].creq)
    /\ [][\A t \in Tasks :
            (task[t].pc = "an_fin2" /\ task'[t].pc = "idle")
                => ~inst'[task[t].inst].cancel]_vars

C8_Witness ==
    \E t, u \in Tasks :
        /\ Ended(t) /\ task[t].op \in ImageOps /\ task[t].res = "Cancelled"
        /\ Ended(u) /\ task[u].op = "cancel" /\ task[u].res = "true"
        /\ ~inst[task[t].inst].processing /\ ~inst[task[t].inst].cancel

\* C9: shutdown_instance of an identifier that is not registered fails with
\* NotFound and leaves the registry unchanged; a shutdown_instance that
\* completes leaves the identifier unregistered, so that a second one fails
\* with NotFound.
C9_ShutdownNotFound ==
    [][\A t \in Tasks :
         /\ (task[t].pc = "idle" /\ task'[t] # task[t] /\ task'[t].op = "shutdown")
               => /\ instances' = instances
                  /\ (task'[t].res = "NotFound") <=> (instances[task'[t].id] = 0)
                  /\ (task'[t].res = "NotFound") => task'[t].pc = "idle"
         /\ (task[t].pc = "sd_await" /\ task'[t].pc = "idle")
               => /\ task'[t].res = "ok"
                  /\ instances'[task[t].id] = 0]_vars

C9_Witness ==
    \E t, u \in Tasks :
        /\ Ended(t) /\ task[t].op = "shutdown" /\ task[t].res = "NotFound"
        /\ Ended(u) /\ task[u].op = "shutdown" /\ task[u].res = "ok"
        /\ task[u].id = task[t].id
        /\ inst[task[u].inst].reg = "shutdown"
        /\ inst[task[u].inst].status = "stopped"

\* C10: two concurrent shutdown_instance calls for one identifier (both
\* found the same instance) each end successfully or with NotFound, and once
\* both have ended and no executor task is at work on the instance, the
\* instance is absent from the registry and Stopped (or in Error with the
\* teardown's own failure detail, when the engine teardown itself raised).
C10_ConcurrentShutdown ==
    /\ \A t \in Tasks :
          (Ended(t) /\ task[t].op = "shutdown") => task[t].res \in {"ok", "NotFound"}
    /\ \A t1, t2 \in Tasks :
          (/\ t1 # t2
           /\ Ended(t1) /\ task[t1].op = "shutdown"
           /\ Ended(t2) /\ task[t2].op = "shutdown"
           /\ task[t1].inst # 0 /\ task[t1].inst = task[t2].inst
           /\ ~JobOn(task[t1].inst))
              => /\ instances[task[t1].id] # task[t1].inst
                 /\ \/ inst[task[t1].inst].status = "stopped"
                    \/ /\ inst[task[t1].inst].status = "error"
                       /\ inst[task[t1].inst].error_message = "shutdown"

\* C11: when shutdown_instance returns successfully, whatever the lifecycle
\* state of the instance was when it was called, the instance is Stopped (or
\* in Error with the teardown's own failure detail, when the engine teardown
\* itself raised), its engine handle is null and the identifier is absent
\* from the registry.
C11_ShutdownLeavesStopped ==
    [][\A t \in Tasks :
         (task[t].pc = "sd_await" /\ task'[t].pc = "idle")
            => /\ instances'[task[t].id] = 0
               /\ ~inst'[task[t].inst].model
               /\ ~inst'[task[t].inst].processor
               /\ \/ inst'[task[t].inst].status = "stopped"
                  \/ /\ inst'[task[t].inst].status = "error"
                     /\ inst'[task[t].inst].error_message = "shutdown"]_vars

\* C12: shutdown_all attempts shutdown_instance for every identifier it
\* enumerated; a failure for one of them neither stops the loop nor fails
\* shutdown_all: when it has ended it has returned normally, every enumerated
\* identifier was either shut down by it or had failed, and none of them is
\* registered any more.
C12_ShutdownAllIsolates ==
    \A t \in Tasks :
        (Ended(t) /\ task[t].op = "shutdown_all")
            => /\ task[t].res = "ok"
               /\ task[t].todo = <<>>
               /\ task[t].errs \cup task[t].done = task[t].enum
               /\ \A id \in task[t].enum : ~IdRegistered(id)

C12_Witness ==
    \E t \in Tasks :
        /\ Ended(t) /\ task[t].op = "shutdown_all"
        /\ task[t].enum = {1, 2}
        /\ task[t].errs = {1}
        /\ task[t].done = {2}
        /\ inst[2].status = "stopped"

\* C13: a chat or image-analysis call whose readiness check finds the
\* instance not Running or its engine handle null ends there with NotReady:
\* the engine is not invoked and neither the instance (state, handle, flags,
\* lock) nor the registry changes.
C13_NotReadyRejected ==
    [][\A t \in Tasks :
         (/\ task[t].pc \in {"chat_ready", "an_ready"}
          /\ task'[t] # task[t]
          /\ ~(inst[task[t].inst].status = "running" /\ HandlePresent(task[t].inst)))
            => /\ task'[t].pc = "idle"
               /\ task'[t].res = "NotReady"
               /\ inst' = inst
               /\ instances' = instances]_vars

C13_Witness ==
    \E t, u \in Tasks :
        /\ Ended(t) /\ task[t].op = "chat" /\ task[t].res = "NotReady"
        /\ Ended(u) /\ task[u].op \in ImageOps /\ task[u].res = "NotReady"
        /\ task[t].inst = task[u].inst
        /\ inst[task[t].inst].status = "loading"
        /\ instances[task[t].id] = task[t].inst

\* C14: a cancel request for an identifier that is not in the registry fails
\* with NotFound: a cancel call that found no instance ends with NotFound.
C14_CancelNotFound ==
    \A t \in Tasks :
        (Ended(t) /\ task[t].op = "cancel" /\ task[t].inst = 0)
            => task[t].res = "NotFound"

Accepted == calc.fn = "normalize" /\ calc.out # NoOut /\ calc.w >= 10 /\ calc.h >= 10

\* C16: every accepted image (both sides >= 10) is scaled so that its longer
\* side is exactly 100 and pasted on the 100x100 canvas at offsets
\* ((100 - new_w) div 2, (100 - new_h) div 2); the engine input is always
\* 100x100 and the response reports the original dimensions; 400x200 is
\* resized to 100x50 with offsets (0, 25).
C16_NormalizedTo100 ==
    Accepted
        => /\ calc.out.status = "ok"
           /\ max(calc.out.resized[1], calc.out.resized[2]) = 100
           /\ calc.out.offset[1] * 2 \in {100 - calc.out.resized[1],
                                          99 - calc.out.resized[1]}
           /\ calc.out.offset[2] * 2 \in {100 - calc.out.resized[2],
                                          99 - calc.out.resized[2]}
           /\ calc.out.engine_input = <<100, 100>>
           /\ calc.out.image_dimensions = <<calc.w, calc.h>>
           /\ (calc.w = 400 /\ calc.h = 200)
                 => /\ calc.out.resized = <<100, 50>>
                    /\ calc.out.offset = <<0, 25>>

\* The query has answered, no probe having raised, for an accelerator that
\* is present.
Present == calc.available /\ calc.count > 0

\* C17: the negotiator recommends the accelerator exactly when one is present
\* and its capability version major.minor is at least 7.0, and cpu otherwise;
\* 6.1 gives cpu with a populated incompatibility reason, 8.0 gives the
\* accelerator with no incompatibility reason.
C17_RecommendedDevice ==
    (calc.fn = "capabilities" /\ calc.out # NoCap /\ ~calc.raises)
        => /\ calc.out.recommended_device =
                 IF Present /\ calc.major >= 7 THEN "cuda" ELSE "cpu"
           /\ (Present /\ calc.major = 6 /\ calc.minor = 1)
                 => /\ calc.out.recommended_device = "cpu"
                    /\ calc.out.incompatibility_reason \notin {"none", "-"}
           /\ (Present /\ calc.major = 8 /\ calc.minor = 0)
                 => /\ calc.out.recommended_device = "cuda"
                    /\ calc.out.incompatibility_reason = "none"

C17_Witness ==
    /\ calc.fn = "capabilities" /\ Present /\ ~calc.raises
    /\ calc.major = 6 /\ calc.minor = 1
    /\ calc.out.recommended_device = "cpu"
    /\ calc.out.incompatibility_reason = "too_old"

\* C18: at most max_workers (4) load or teardown tasks are executing at any
\* time; a task submitted while all workers are busy stays in the queue, it
\* is neither rejected nor dropped (every awaited job is queued, executing or
\* ended, and the queue holds exactly the jobs not started), and it is
\* executed later.
C18_PoolBounded ==
    /\ [](Cardinality({t \in Tasks : Running(t)}) <= 4)
    /\ [](\A t \in Tasks :
             task[t].pc \in {"init_await", "sd_await"}
                => /\ job[t].kind # "none"
                   /\ (job[t].pc = "queued")
                         <=> (\E k \in 1..Len(queue) : queue[k] = t))
    /\ \A t \in Tasks : (job[t].pc = "queued") ~> Running(t)

C18_Witness ==
    /\ Cardinality({t \in Tasks : Running(t)}) = 4
    /\ queue # <<>>
    /\ job[Head(queue)].pc = "queued"

\* C19: every instance created in Loading eventually leaves Loading, its
\* state becoming Running or Error, under fair scheduling of the pool and
\* with loads that terminate, also when more loads are submitted at once
\* than the pool has workers.
C19_LeavesLoading ==
    \A i \in LoadIds :
        (inst[i].status = "loading") ~> (inst[i].status \in {"running", "error"})

C19_Witness ==
    /\ inst[NumTasks].status = "running"
    /\ inst[max_workers].status = "error"
    /\ \A i \in LoadIds : inst[i].status # "loading"
    /\ \A t \in Tasks : job[t].pc \in {"done_ok", "done_exc", "-"}


\* The failure kind the specification gives to the cause a request fails for.
FailureKind(q) ==
    IF ~q.registered THEN "NotFound"
    ELSE IF ~q.ready THEN "NotReady"
    ELSE IF q.len > max_base64_size THEN "PayloadTooLarge"
    ELSE IF ~q.decodable \/ q.w < 10 \/ q.h < 10 THEN "InvalidInput"
    ELSE "other"

FourKinds == {"NotFound", "NotReady", "PayloadTooLarge", "InvalidInput"}

\* What the caller can tell the kind of a failure from: the status code of the
\* response and the class of the exception behind it (the detail is the
\* human-readable string).
Reported(q) ==
    <<handle_image_analysis(Raised(q)).status_code, Raised(q).exc>>

\* C20: an image-analysis call that fails for an unknown identifier, for an
\* instance that is not ready, for an encoded payload above 50 MB or for an
\* undecodable or undersized image is answered as a failure, and two requests
\* that fail for different ones of these four causes are reported to the
\* caller as different kinds.
C20_FourDistinctKinds ==
    (calc.fn = "analyze_image" /\ calc.out # NoResponse
        /\ FailureKind(calc.req) \in FourKinds)
    => /\ calc.out.status_code # 200
       /\ \A q \in Requests :
            (FailureKind(q) \in FourKinds
                /\ FailureKind(q) # FailureKind(calc.req))
            => Reported(q) # <<calc.out.status_code, calc.raised.exc>>


\* C21: a text chat call that holds the instance lock invokes the engine's
\* generate step only when the instance's cancellation flag is not set; with
\* the flag set it ends with Cancelled.
C21_ChatChecksCancel ==
    [][\A t \in Tasks :
        (task[t].op = "chat" /\ task[t].pc = "chat_tmpl"
            /\ inst[task[t].inst].cancel /\ task'[t] # task[t])
        => (task'[t].pc = "idle" /\ task'[t].res = "Cancelled")]_vars


\* The lifecycle transitions the specification names.
LifecycleEdges ==
    {<<"loading", "running">>, <<"loading", "error">>, <<"running", "stopped">>}

\* C22: the lifecycle state of an instance changes only along
\* Loading->Running, Loading->Error and Running->Stopped; in particular the
\* state of a Stopped instance never changes again, however its load task
\* interleaves with shutdown_instance.
C22_LifecycleEdgesOnly ==
    [][\A i \in Objs :
        inst'[i].status # inst[i].status
        => (inst[i].id = 0
            \/ <<inst[i].status, inst'[i].status>> \in LifecycleEdges)]_vars


\* C23: every step of an inference call that dereferences the engine handle
\* (the chat template, the generate step) finds it non-null: the teardown
\* never releases it while a call uses it, and no call uses it after the
\* teardown released it.
C23_EngineSeesHandle ==
    \A t \in Tasks :
        task[t].pc \in {"chat_tmpl", "chat_gen", "an_tmpl", "an_chk3", "an_gen"}
        => HandlePresent(task[t].inst)


\* An inference call of t is executing on object i: it has passed the
\* readiness check and has not returned.
InferenceExecuting(t, i) ==
    /\ task[t].inst = i
    /\ task[t].pc \in {"chat_lock", "chat_tmpl", "chat_gen",
                       "an_clear", "an_chk1", "an_chk2", "an_lock",
                       "an_tmpl", "an_chk3", "an_gen"}

\* C24: while an inference call on an instance is executing, chat or image
\* analysis, the instance's processing flag is true, also when several calls
\* on the instance overlap and one of them ends first.
C24_ProcessingWhileExecuting ==
    \A t \in Tasks : \A i \in Objs :
        InferenceExecuting(t, i) => inst[i].processing


\* C25: shutdown_instance that finds the processing flag set sets the
\* cancellation flag, then waits the grace period, and only then submits the
\* teardown; when it finds the flag not set it submits the teardown at once
\* and does not set the cancellation flag.
C25_CancelThenGraceThenTeardown ==
    [][\A t \in Tasks :
        /\ (task[t].pc = "sd_isproc" /\ task'[t] # task[t])
            => IF inst[task[t].inst].processing
               THEN task'[t].pc = "sd_cancel"
               ELSE task'[t].pc = "sd_submit" /\ inst' = inst
        /\ (task[t].pc = "sd_cancel" /\ task'[t] # task[t])
            => /\ task'[t].pc = "sd_sleep"
               /\ inst'[task[t].inst].cancel
               /\ job'[t] = NoJob
        /\ (task[t].pc = "sd_sleep" /\ task'[t] # task[t])
            => task'[t].pc = "sd_submit" /\ job'[t] = NoJob
        /\ (job[t].kind # "teardown" /\ job'[t].kind = "teardown")
            => /\ task[t].pc = "sd_submit"
               /\ job'[t].pc = "queued"
               /\ job'[t].inst = task[t].inst
               /\ inst' = inst]_vars

C25_Witness ==
    \E t \in Tasks :
        /\ task[t].op = "shutdown" /\ task[t].pc = "sd_await"
        /\ job[t].kind = "teardown"
        /\ inst[task[t].inst].cancel
        /\ \E u \in Tasks : task[u].creq \/ task[u].late


\* An inference call of u is inside the engine's generate step.
InGenerate(u) == task[u].pc \in {"chat_gen", "an_gen"}

\* C26: the holder of the registry lock holds no instance lock, waits for
\* none and is not in the engine, so it always has a next step; and while an
\* inference call on one instance is inside the instance lock, the registry
\* operations on another identifier (list, lookup and remove by
\* shutdown_instance, create) are not kept from starting.
C26_RegistryNeverBlocked ==
    /\ \A t \in RegistryLockHolders :
          /\ \A i \in Objs : inst[i].lock # t
          /\ ~InLock(t) /\ task[t].pc \notin {"chat_lock", "an_lock"}
          /\ ENABLED (ListInfo(t) \/ ListReturn(t))
    /\ \A u \in Tasks : \A id \in AllIds :
          (InLock(u) /\ id # task[u].id /\ RegistryLockFree
              /\ calls < MaxCalls)
          => \E t \in Tasks :
                /\ LoopTurn(t)
                /\ ENABLED ListCall(t)
                /\ ENABLED ShutdownCall(t, id)
                /\ nInst < MaxInst => ENABLED InitializeCall(t, id)

\* C27: inference calls on different instances are independent: while a call
\* on one instance is inside the engine's generate step, a call on another
\* instance that is ready can start and go on to its own generate step, so
\* that both are in the engine at the same time.
C27_IndependentInstances ==
    \A u \in Tasks : \A id \in AllIds :
        (InGenerate(u) /\ id # task[u].id /\ IdRegistered(id)
            /\ is_ready(get_instance(id)) /\ calls < MaxCalls)
        => \E t \in Tasks : LoopTurn(t) /\ ENABLED ChatCall(t, id)


\* r is the quotient 100 * num / den rounded to the nearest integer (either
\* neighbour when the quotient is halfway between two integers).
NearestTo(r, num, den) ==
    /\ 2 * den * r - 200 * num <= den
    /\ 200 * num - 2 * den * r <= den

\* C28: for every accepted image of width w and height h the shorter side of
\* the resized image is 100 / aspect_ratio (landscape) or 100 * aspect_ratio
\* (otherwise) rounded to the nearest integer, with aspect_ratio = w / h.
C28_ShorterSideRounded ==
    Accepted
    => IF calc.w > calc.h
       THEN NearestTo(calc.out.resized[2], calc.h, calc.w)
       ELSE NearestTo(calc.out.resized[1], calc.w, calc.h)


\* clamp(x, lo, hi) of the specification.
clamp(x, lo, hi) == IF x < lo THEN lo ELSE IF x > hi THEN hi ELSE x

\* C29: an uploaded-image (PIL) analysis call gives the engine the token
\* budget of the other call shapes, clamp(max_length - input_len, 50, 100),
\* for every max_length and input length.
C29_PilBudgetClamped ==
    (calc.fn = "analyze_pil" /\ calc.out # -1)
    => /\ calc.out = clamp(calc.max_length - calc.input_len, 50, 100)
       /\ calc.out = chat_max_new_tokens(calc.max_length, calc.input_len)


\* C30: normalizing an image that is already 100x100 changes no geometry:
\* the resized size is 100x100 and the paste offsets are (0, 0); so the
\* second normalization of the output of any normalization gives that size
\* and those offsets.
C30_SquareIsFixedPoint ==
    /\ (Accepted /\ calc.w = 100 /\ calc.h = 100)
        => /\ calc.out.status = "ok"
           /\ calc.out.resized = <<100, 100>>
           /\ calc.out.offset = <<0, 0>>
           /\ calc.out.engine_input = <<100, 100>>
    /\ (calc.fn = "normalize" /\ calc.again # NoOut)
        => /\ calc.again.status = "ok"
           /\ calc.again.resized = <<100, 100>>
           /\ calc.again.offset = <<0, 0>>
           /\ calc.again.engine_input = calc.out.engine_input

C30_Witness ==
    /\ calc.fn = "normalize" /\ calc.again # NoOut
    /\ calc.w = 400 /\ calc.h = 200
    /\ calc.out.resized = <<100, 50>> /\ calc.out.offset = <<0, 25>>
    /\ calc.again.resized = <<100, 100>>


\* C31: in every state and for every instance, an error detail is present
\* (error_message is not None) only while the state of the instance is
\* Error, however a failing load interleaves with shutdown_instance.
C31_ErrorDetailOnlyInError ==
    \A i \in Objs :
        (inst[i].id # 0 /\ inst[i].error_message # "none")
        => inst[i].status = "error"


\* C32: an instance initialized with requested device auto resolves to the
\* device the capability query recommends for the same hardware: cuda only
\* if it is present and its capability is at least 7.0, cpu otherwise.
C32_AutoIsRecommended ==
    (calc.fn = "initialize" /\ calc.out # "-" /\ calc.device = "auto")
    => /\ calc.out =
            get_device_capabilities(calc.available, calc.count, calc.major,
                                    calc.minor, FALSE).recommended_device
       /\ calc.out = "cuda"
            <=> (calc.available /\ 10 * calc.major + calc.minor >= 70)


\* C33: every shutdown_instance call on a registered instance completes,
\* also with an inference call in flight on the instance or waiting for its
\* lock; no interleaving of shutdown, inference and cancel requests is stuck
\* on the registry lock, the instance lock and the worker pool: every call
\* that has started ends.
C33_ShutdownCompletes ==
    \A t \in Tasks :
        /\ (task[t].op = "shutdown" /\ task[t].pc # "idle")
              ~> (task[t].op = "shutdown" /\ task[t].pc = "idle"
                    /\ task[t].res \in {"ok", "NotFound"})
        /\ (task[t].pc # "idle") ~> (task[t].pc = "idle")


\* C33 witness: a shutdown has ended "ok" after its teardown ran, the image
\* analysis that was in flight has returned, and a cancel request has been
\* answered.
C33_Witness ==
    /\ \E t \in Tasks : task[t].op = "shutdown" /\ task[t].pc = "idle" /\ task[t].res = "ok"
    /\ task[1].op = "analyze" /\ task[1].pc = "idle"
    /\ \E u \in Tasks : task[u].op = "cancel" /\ task[u].pc = "idle" /\ task[u].res # "none"
    /\ inst[1].status = "stopped"


\* C34: an instance that shutdown_instance has removed from the registry
\* holds no engine handle from then on and is not Running, also when its load
\* task was still queued or running at the time of the shutdown and
\* completes later.
C34_RemovedHoldsNoHandle ==
    \A i \in Objs :
        inst[i].reg = "shutdown"
        => /\ ~inst[i].model
           /\ ~inst[i].processor
           /\ inst[i].status # "running"


InTeardownLock(t) ==
    /\ job[t].kind = "teardown"
    /\ job[t].pc \in {"td_model", "td_proc", "td_status", "td_exc_status", "td_exc_msg"}

\* C36: the instance lock is released on every exit path of a chat or
\* image-analysis call and of the teardown: the lock of an instance is held
\* only by a call that is inside its locked section on that instance or by a
\* teardown that is inside its own, so whenever no inference call and no
\* teardown is in progress on the instance its lock is free.
C36_LockReleasedOnExit ==
    \A i \in Objs :
        /\ \A t \in Tasks :
              /\ inst[i].lock = t => (InLock(t) /\ task[t].inst = i)
              /\ inst[i].lock = -t => (InTeardownLock(t) /\ job[t].inst = i)
        /\ inst[i].lock \in {0} \cup Tasks \cup {-t : t \in Tasks}
        /\ (/\ \A t \in Tasks : task[t].inst = i => task[t].pc = "idle"
            /\ ~JobOn(i))
              => LockFree(i)

\* C36 witness: every caller has returned, among them an inference call that
\* ended with an engine failure and an image analysis that was cancelled, the
\* teardown has run, and the lock is free.
C36_Witness ==
    /\ \A t \in Tasks : task[t].pc = "idle"
    /\ ~JobOn(1)
    /\ inst[1].status = "stopped"
    /\ \E t \in Tasks : task[t].op \in ImageOps /\ task[t].res \in {"Cancelled", "EngineFailure"}
    /\ \E t \in Tasks : task[t].op = "shutdown" /\ task[t].res = "ok"
    /\ LockFree(1)


\* C37: for every image accepted by the size check (width >= 10 and height
\* >= 10) both sides of the resized image computed by the normalisation are
\* between 1 and 100, also when one side is more than 100 times the other.
C37_ResizedSidesInRange ==
    Accepted
    => /\ calc.out.resized[1] \in 1..100
       /\ calc.out.resized[2] \in 1..100


\* C38: an initialize_instance call rejected with AlreadyExists leaves the
\* registry and the registered instance unchanged (state, engine handle,
\* flags), creates no instance and submits no load task.
C38_RejectedInitChangesNothing ==
    [][\A t \in Tasks :
         (/\ CanCall(t) /\ calls' = calls + 1
          /\ task'[t].op = "init" /\ task'[t].res = "AlreadyExists")
            => /\ instances' = instances
               /\ inst' = inst
               /\ nInst' = nInst
               /\ job' = job
               /\ queue' = queue]_vars

\* C38 witness: a call was rejected with AlreadyExists before the call that
\* registered the instance returned, and that instance has completed its load
\* and holds its engine handle.
C38_Witness ==
    \E t, u \in Tasks :
        /\ Ended(t) /\ task[t].op = "init" /\ task[t].res = "AlreadyExists"
        /\ task[u].op = "init" /\ task[u].pc = "init_await"
        /\ instances[task[t].id] = task[u].inst
        /\ is_ready(task[u].inst)

====
